---------------------------- MODULE Spec2Model ----------------------------
(***************************************************************************)
(* A model of the syncstorage handlers (src/web/handlers.rs), of the       *)
(* Spanner pool and its collection cache (src/db/spanner/pool.rs) and of   *)
(* the mock backend (src/db/mock.rs).                                      *)
(*                                                                         *)
(* The specifications of the module share its variables:                   *)
(*   SpecCache   threads calling CollectionCache::put/get_id/get_name,     *)
(*               each RwLock acquisition and each map access a step;       *)
(*   SpecCacheFair  the same under fair lock scheduling;                   *)
(*   Spec        batched POSTs (post_collection_batch) against a storage   *)
(*               backend;                                                  *)
(*   SpecStore   a batched POST in flight beside puts, deletes and GETs;   *)
(*   SpecSingle  the single-call handlers, one request after the other;    *)
(*   SpecPool    pools, their clones and handles, and the heartbeat;       *)
(*   SpecMock    calls on the mock backend.                                *)
(* The backend's operations (post_bsos, commit_batch, ...) live outside    *)
(* src/ and follow the written specification of the storage interface.     *)
(***************************************************************************)
EXTENDS Integers, Sequences, FiniteSets, TLC

(***************************************************************************)
(* Option<T>: None is the empty sequence, Some(v) the one-element one.     *)
(***************************************************************************)
None == <<>>

Some(v) == <<v>>

(***************************************************************************)
(* ============================ CollectionCache ========================== *)
(***************************************************************************)

\* The well-known collections and their reserved ids, as (id, name) pairs.
STD_COLLS ==
    << <<1, "clients">>, <<2, "crypto">>, <<3, "forms">>, <<4, "history">>,
       <<5, "keys">>, <<6, "meta">>, <<7, "bookmarks">>, <<8, "prefs">>,
       <<9, "tabs">>, <<10, "passwords">>, <<11, "addons">>,
       <<12, "addresses">>, <<13, "creditcards">> >>

\* Threads sharing one Arc<CollectionCache>.
Threads == {"t1", "t2"}

\* Arguments the callers pass: a reserved pair and a pair outside the
\* reserved range, in every combination.
PutIds == {1, 100}

PutNames == {"clients", "xcoll"}

VARIABLES
    by_name,      \* CollectionCache.by_name: HashMap<String, i32>
    by_id,        \* CollectionCache.by_id:   HashMap<i32, String>
    name_lock,    \* the RwLock around by_name: [w: Option<thread>, r: readers]
    id_lock,      \* the RwLock around by_id
    th            \* per thread: the call it is in, where in it, and
                  \* (once idle again) what its last lookup returned

cacheVars == <<by_name, by_id, name_lock, id_lock, th>>

\* HashMap::insert: upsert of one key.
Insert(m, k, v) == [x \in (DOMAIN m) \cup {k} |-> IF x = k THEN v ELSE m[x]]

\* HashMap::get(..).cloned()
Lookup(m, k) == IF k \in DOMAIN m THEN Some(m[k]) ELSE None

\* A would-be repair of put that keeps by_name injective by evicting every
\* other name bound to the id.
PutByNameEvict(m, id, name) ==
    [x \in {y \in DOMAIN m : m[y] # id} \cup {name} |->
        IF x = name THEN id ELSE m[x]]

\* put's first statement: by_name.write()?.insert(name.clone(), id)
PutByName(m, id, name) == Insert(m, name, id)

\* put's second statement: by_id.write()?.insert(id, name)
PutById(m, id, name) == Insert(m, id, name)

FreeLock == [w |-> None, r |-> {}]

Idle == [pc |-> "idle", op |-> "", id |-> 0, name |-> "", ret |-> None]

\* by_name collected with each name's zero-based position in place of its
\* reserved id.
SeedByNameByPosition(colls) ==
    [n \in {colls[k][2] : k \in DOMAIN colls} |->
        (CHOOSE k \in DOMAIN colls : colls[k][2] = n) - 1]

\* Lines 136-141: by_name collected from the (id, name) pairs as name -> id.
SeedByName(colls) ==
    [n \in {colls[k][2] : k \in DOMAIN colls} |->
        colls[CHOOSE k \in DOMAIN colls : colls[k][2] = n][1]]

\* Lines 142-147: by_id collected from the (id, name) pairs as id -> name.
SeedById(colls) ==
    [i \in {colls[k][1] : k \in DOMAIN colls} |->
        colls[CHOOSE k \in DOMAIN colls : colls[k][1] = i][2]]

\* CollectionCache::default(): both maps collected from STD_COLLS.
CacheInit ==
    /\ by_name = SeedByName(STD_COLLS)
    /\ by_id = SeedById(STD_COLLS)
    /\ name_lock = FreeLock
    /\ id_lock = FreeLock
    /\ th = [t \in Threads |-> Idle]

CanWrite(l) == l.w = None /\ l.r = {}

CanRead(l) == l.w = None

\* A write guard that outlives its statement: the lock stays taken.
KeepWriteGuard(l) == l

\* The write guard of put's statement is a temporary: it is dropped, and the
\* lock released, at the statement's `;` (lines 106 and 110).
DropWriteGuard(l) == FreeLock

\* A thread enters put(id, name).
CallPut(t, id, name) ==
    /\ th[t].pc = "idle"
    /\ th' = [th EXCEPT ![t] = [pc |-> "put_lock_name", op |-> "put", id |-> id,
                                name |-> name, ret |-> None]]
    /\ UNCHANGED <<by_name, by_id, name_lock, id_lock>>

\* self.by_name.write(): blocks until no reader and no writer holds it.
PutLockName(t) ==
    /\ th[t].pc = "put_lock_name"
    /\ CanWrite(name_lock)
    /\ name_lock' = [name_lock EXCEPT !.w = Some(t)]
    /\ th' = [th EXCEPT ![t].pc = "put_insert_name"]
    /\ UNCHANGED <<by_name, by_id, id_lock>>

\* .insert(name.clone(), id); the guard is a temporary, dropped at the `;`.
PutInsertName(t) ==
    /\ th[t].pc = "put_insert_name"
    /\ by_name' = PutByName(by_name, th[t].id, th[t].name)
    /\ name_lock' = DropWriteGuard(name_lock)
    /\ th' = [th EXCEPT ![t].pc = "put_lock_id"]
    /\ UNCHANGED <<by_id, id_lock>>

\* self.by_id.write()
PutLockId(t) ==
    /\ th[t].pc = "put_lock_id"
    /\ CanWrite(id_lock)
    /\ id_lock' = [id_lock EXCEPT !.w = Some(t)]
    /\ th' = [th EXCEPT ![t].pc = "put_insert_id"]
    /\ UNCHANGED <<by_name, by_id, name_lock>>

\* .insert(id, name); Ok(())
PutInsertId(t) ==
    /\ th[t].pc = "put_insert_id"
    /\ by_id' = PutById(by_id, th[t].id, th[t].name)
    /\ id_lock' = DropWriteGuard(id_lock)
    /\ th' = [th EXCEPT ![t] = Idle]
    /\ UNCHANGED <<by_name, name_lock>>

\* A thread enters get_id(name).
CallGetId(t, name) ==
    /\ th[t].pc = "idle"
    /\ th' = [th EXCEPT ![t] = [pc |-> "get_id_lock", op |-> "get_id", id |-> 0,
                                name |-> name, ret |-> None]]
    /\ UNCHANGED <<by_name, by_id, name_lock, id_lock>>

\* self.by_name.read()
GetIdLock(t) ==
    /\ th[t].pc = "get_id_lock"
    /\ CanRead(name_lock)
    /\ name_lock' = [name_lock EXCEPT !.r = @ \cup {t}]
    /\ th' = [th EXCEPT ![t].pc = "get_id_read"]
    /\ UNCHANGED <<by_name, by_id, id_lock>>

\* .get(name).cloned(); the read guard is dropped with the expression.
GetIdRead(t) ==
    /\ th[t].pc = "get_id_read"
    /\ LET r == Lookup(by_name, th[t].name)
           n == th[t].name
       IN th' = [th EXCEPT ![t] = [pc |-> "idle", op |-> "get_id", id |-> 0,
                                   name |-> n, ret |-> r]]
    /\ name_lock' = [name_lock EXCEPT !.r = @ \ {t}]
    /\ UNCHANGED <<by_name, by_id, id_lock>>

\* A thread enters get_name(id).
CallGetName(t, id) ==
    /\ th[t].pc = "idle"
    /\ th' = [th EXCEPT ![t] = [pc |-> "get_name_lock", op |-> "get_name", id |-> id,
                                name |-> "", ret |-> None]]
    /\ UNCHANGED <<by_name, by_id, name_lock, id_lock>>

\* self.by_id.read()
GetNameLock(t) ==
    /\ th[t].pc = "get_name_lock"
    /\ CanRead(id_lock)
    /\ id_lock' = [id_lock EXCEPT !.r = @ \cup {t}]
    /\ th' = [th EXCEPT ![t].pc = "get_name_read"]
    /\ UNCHANGED <<by_name, by_id, name_lock>>

\* .get(&id).cloned()
GetNameRead(t) ==
    /\ th[t].pc = "get_name_read"
    /\ LET r == Lookup(by_id, th[t].id)
           i == th[t].id
       IN th' = [th EXCEPT ![t] = [pc |-> "idle", op |-> "get_name", id |-> i,
                                   name |-> "", ret |-> r]]
    /\ id_lock' = [id_lock EXCEPT !.r = @ \ {t}]
    /\ UNCHANGED <<by_name, by_id, name_lock>>

CacheNext ==
    \E t \in Threads :
        \/ \E id \in PutIds, name \in PutNames : CallPut(t, id, name)
        \/ PutLockName(t)
        \/ PutInsertName(t)
        \/ PutLockId(t)
        \/ PutInsertId(t)
        \/ \E name \in PutNames : CallGetId(t, name)
        \/ GetIdLock(t)
        \/ GetIdRead(t)
        \/ \E id \in PutIds : CallGetName(t, id)
        \/ GetNameLock(t)
        \/ GetNameRead(t)


(***************************************************************************)
(* ============================ SpannerDbPool ============================ *)
(* Pool objects, the caches and connection pools they point to, and tasks  *)
(* that take a handle (SpannerDb) from a pool and use the cache through    *)
(* it.  The r2d2 connection pool lives outside src/: it hands out at most  *)
(* PoolSize connections, get() waits for a free one and gives up with an   *)
(* error after its acquisition timeout, and a dropped handle returns its   *)
(* connection.                                                             *)
(***************************************************************************)

\* The SpannerDbPool values of the process.
PoolRefs == {"pool1", "pool2"}

\* Request tasks.
Tasks == {"k1", "k2", "k3"}

\* Connections one r2d2 pool hands out at most.
PoolSize == 2

\* What tasks put and look up through their handles.
HandlePuts == {<<100, "xcoll">>}

HandleNames == {"xcoll", "clients"}

HandleIds == {100}

VARIABLES
    pool,         \* per SpannerDbPool value: None before it exists, else
                  \* Some([cache, conns]): the Arc<CollectionCache> and the
                  \* r2d2 Pool it points to, named by the pool that made them
    cache_heap,   \* the CollectionCache allocated by each constructed pool:
                  \* [by_name, by_id, fresh]; fresh until the first put
    out,          \* per r2d2 pool: connections checked out
    task          \* per task: where it is, and the handle it holds

poolVars == <<pool, cache_heap, out, task>>

NoCache == [by_name |-> <<>>, by_id |-> <<>>, fresh |-> FALSE]

NoTask == [pc |-> "idle", pool |-> "", cache |-> "", conn |-> "",
           op |-> <<>>, ret |-> None]

PoolInit ==
    /\ pool = [p \in PoolRefs |-> None]
    /\ cache_heap = [p \in PoolRefs |-> NoCache]
    /\ out = [p \in PoolRefs |-> 0]
    /\ task = [t \in Tasks |-> NoTask]

\* Lines 52-60: a new r2d2 pool and coll_cache: Default::default().
NewWithoutMigrations(p) ==
    /\ pool[p] = None
    /\ pool' = [pool EXCEPT ![p] = Some([cache |-> p, conns |-> p])]
    /\ cache_heap' = [cache_heap EXCEPT ![p] =
                         [by_name |-> SeedByName(STD_COLLS),
                          by_id |-> SeedById(STD_COLLS), fresh |-> TRUE]]
    /\ UNCHANGED <<out, task>>

\* #[derive(Clone)] (line 33) and box_clone (lines 81-83): the clone's Arc
\* and Pool fields point where the original's do.
PoolClone(p, q) ==
    /\ pool[p] # None
    /\ pool[q] = None
    /\ pool' = [pool EXCEPT ![q] = pool[p]]
    /\ UNCHANGED <<cache_heap, out, task>>

\* Lines 72-78: get clones the pool and spawns get_sync on the thread pool.
PoolGet(t, p) ==
    /\ task[t].pc = "idle"
    /\ pool[p] # None
    /\ task' = [task EXCEPT ![t] = [NoTask EXCEPT !.pc = "getting", !.pool = p]]
    /\ UNCHANGED <<pool, cache_heap, out>>

\* An r2d2 pool that opens one more connection when none is free.
AlwaysCheckOut(n) == TRUE

\* r2d2 hands out a connection while fewer than PoolSize are checked out.
CanCheckOut(n) == n < PoolSize

\* A handle given a cache of its own, not the pool's.
OtherCache(p) == CHOOSE q \in PoolRefs : q # pool[p][1].cache

\* Line 66: Arc::clone(&self.coll_cache).
HandleCache(p) == pool[p][1].cache

\* Lines 62-68: get_sync takes one connection from the r2d2 pool and builds
\* the handle around it, the thread pool and the shared cache.
GetSync(t) ==
    LET p == task[t].pool
        conns == pool[p][1].conns
    IN /\ task[t].pc = "getting"
       /\ CanCheckOut(out[conns])
       /\ out' = [out EXCEPT ![conns] = @ + 1]
       /\ task' = [task EXCEPT ![t] = [@ EXCEPT !.pc = "holding",
                                                !.cache = HandleCache(p),
                                                !.conn = conns]]
       /\ UNCHANGED <<pool, cache_heap>>

\* Line 64: self.pool.get()? fails when no connection came free in time.
GetSyncTimeout(t) ==
    LET conns == pool[task[t].pool][1].conns
    IN /\ task[t].pc = "getting"
       /\ ~CanCheckOut(out[conns])
       /\ task' = [task EXCEPT ![t] = [NoTask EXCEPT !.ret = Some("Internal")]]
       /\ UNCHANGED <<pool, cache_heap, out>>

\* The request ends: the handle is dropped and its connection goes back.
DropHandle(t) ==
    /\ task[t].pc = "holding"
    /\ out' = [out EXCEPT ![task[t].conn] = @ - 1]
    /\ task' = [task EXCEPT ![t] = NoTask]
    /\ UNCHANGED <<pool, cache_heap>>

\* A completed coll_cache.put(id, name) through the handle of t.
HandlePut(t, id, name) ==
    LET c == task[t].cache
    IN /\ task[t].pc = "holding"
       /\ cache_heap' = [cache_heap EXCEPT ![c] =
                            [by_name |-> PutByName(@.by_name, id, name),
                             by_id |-> PutById(@.by_id, id, name),
                             fresh |-> FALSE]]
       /\ task' = [task EXCEPT ![t] = [@ EXCEPT !.op = <<"put", id, name>>,
                                                !.ret = None]]
       /\ UNCHANGED <<pool, out>>

\* coll_cache.get_id(name) through the handle of t.
HandleGetId(t, name) ==
    /\ task[t].pc = "holding"
    /\ task' = [task EXCEPT ![t] =
                   [@ EXCEPT !.op = <<"get_id", name>>,
                             !.ret = Lookup(cache_heap[task[t].cache].by_name,
                                            name)]]
    /\ UNCHANGED <<pool, cache_heap, out>>

\* coll_cache.get_name(id) through the handle of t.
HandleGetName(t, id) ==
    /\ task[t].pc = "holding"
    /\ task' = [task EXCEPT ![t] =
                   [@ EXCEPT !.op = <<"get_name", id>>,
                             !.ret = Lookup(cache_heap[task[t].cache].by_id, id)]]
    /\ UNCHANGED <<pool, cache_heap, out>>

PoolNext ==
    \/ \E p \in PoolRefs : NewWithoutMigrations(p)
    \/ \E p, q \in PoolRefs : PoolClone(p, q)
    \/ \E t \in Tasks, p \in PoolRefs : PoolGet(t, p)
    \/ \E t \in Tasks : GetSync(t)
    \/ \E t \in Tasks : GetSyncTimeout(t)
    \/ \E t \in Tasks : DropHandle(t)
    \/ \E t \in Tasks, pr \in HandlePuts : HandlePut(t, pr[1], pr[2])
    \/ \E t \in Tasks, name \in HandleNames : HandleGetId(t, name)
    \/ \E t \in Tasks, id \in HandleIds : HandleGetName(t, id)


(***************************************************************************)
(* ================================ MockDb =============================== *)
(* MockDbPool and MockDb are unit structs: there is nothing a call could   *)
(* leave behind.  The model keeps the calls made and what they returned.   *)
(***************************************************************************)

\* The methods mock_db_method! defines (mock.rs 56-70).
MockMethods ==
    {"lock_for_read", "lock_for_write", "get_collection_modifieds",
     "get_collection_counts", "get_collection_usage", "get_storage_modified",
     "get_storage_usage", "delete_storage", "delete_collection",
     "delete_bsos", "get_bsos", "post_bsos", "delete_bso", "get_bso",
     "put_bso"}

\* The BSO a call names.
MockKeys == {"b1"}

\* Calls followed.
MaxCalls == 2

VARIABLES
    mock_log      \* the calls made on the mock so far: [method, key, ok, result]

mockVars == <<mock_log>>

MockInit == mock_log = <<>>

\* Default::default() of each method's result type.
ZeroValue(method) ==
    CASE method \in {"lock_for_read", "lock_for_write"} -> "()"
      [] method \in {"get_collection_modifieds", "get_collection_counts",
                     "get_collection_usage"} -> <<>>
      [] method \in {"get_storage_modified", "get_storage_usage",
                     "delete_storage", "delete_collection", "delete_bsos",
                     "delete_bso", "put_bso"} -> 0
      [] method = "get_bsos" -> [items |-> <<>>, offset |-> None]
      [] method = "post_bsos" ->
            [modified |-> 0, success |-> <<>>, failed |-> <<>>]
      [] method = "get_bso" -> None

\* A mock that keeps what was put: get_bso finds a BSO put before.
RemembersWrites(log, method, key) ==
    IF /\ method = "get_bso"
       /\ \E k \in DOMAIN log : log[k].method = "put_bso" /\ log[k].key = key
      THEN Some(key)
      ELSE ZeroValue(method)

\* Lines 36-39: whatever was called before, the result is
\* Default::default(), wrapped in future::ok.
MockResult(log, method, key) == ZeroValue(method)

\* A method defined by mock_db_method! is called.
MockCall(method, key) ==
    /\ Len(mock_log) < MaxCalls
    /\ mock_log' = Append(mock_log,
                          [method |-> method, key |-> key, ok |-> TRUE,
                           result |-> MockResult(mock_log, method, key)])

\* Lines 44-50: commit and rollback return future::ok(()).
MockEnd(method) ==
    /\ Len(mock_log) < MaxCalls
    /\ mock_log' = Append(mock_log,
                          [method |-> method, key |-> "", ok |-> TRUE,
                           result |-> "()"])

\* Lines 16-20: MockDbPool::get returns future::ok of a new MockDb.
MockPoolGet ==
    /\ Len(mock_log) < MaxCalls
    /\ mock_log' = Append(mock_log,
                          [method |-> "get", key |-> "", ok |-> TRUE,
                           result |-> "MockDb"])

MockNext ==
    \/ \E method \in MockMethods, key \in MockKeys : MockCall(method, key)
    \/ \E method \in {"commit", "rollback"} : MockEnd(method)
    \/ MockPoolGet


(***************************************************************************)
(* ===================== Storage backend and handlers ==================== *)
(***************************************************************************)

Users == {"u1"}

Colls == {"bookmarks", "history"}

\* A slot is one (user_id, collection): the key prefix of bso, batches and
\* user_collections, and the unit lock_for_write serializes.
Slots == Users \X Colls

BsoIds == {"b1", "b2"}

Payloads == {"p1", "p2"}

\* The largest timestamp the timestamp source hands out.
MaxTime == 2

Timestamps == 1..MaxTime

\* Backend failures a call can end in besides the ones its contract names.
Faults == {"Conflict", "Internal"}

VARIABLES
    bso,               \* table bso: per slot, id -> [payload, modified]
    user_collections,  \* table user_collections: per slot, Option<modified>
    batches,           \* table batches: per slot, batch id -> staged id -> payload
    lapsed,            \* the (slot, batch id) whose TTL has run out
    last_ts,           \* the timestamp source's latest value
    req,               \* the batched POST in flight (pc = "idle" when none)
    last,              \* the request that completed last, with its response
    committed,         \* the (slot, batch id) commit_batch was performed on
    w_ts,              \* modified of the latest two write operations
    t_ts               \* modified of the latest two write transactions

dbVars == <<bso, user_collections, batches, lapsed, last_ts, req, last,
            committed, w_ts, t_ts>>

vars == <<by_name, by_id, name_lock, id_lock, th,
          pool, cache_heap, out, task, mock_log,
          bso, user_collections, batches, lapsed, last_ts, req, last,
          committed, w_ts, t_ts>>

EmptyMap == <<>>

NoResp == [status |-> 0, err |-> "", success |-> {}, failed |-> {},
           batch |-> None, modified |-> None, body |-> None,
           items |-> {}, records |-> 0, next_offset |-> None,
           last_modified |-> None]

NoSnap == [rows |-> EmptyMap, uc |-> None, staged |-> EmptyMap]

NoReq == [pc |-> "idle", kind |-> "", user |-> "", coll |-> "",
          batch |-> None, valid |-> EmptyMap, invalid |-> {},
          ids |-> {}, full |-> FALSE, limit |-> 0, offset |-> 0,
          bso |-> "", was_committed |-> FALSE,
          id |-> None, is_valid |-> None, ts |-> None,
          success |-> {}, failed |-> {}, calls |-> <<>>, op_err |-> "",
          resp |-> NoResp, pre |-> NoSnap, post |-> NoSnap,
          deleted |-> None, check |-> "", begun |-> ""]

SlotOf(r) == <<r.user, r.coll>>

\* The rows, user_collections row and batches of one slot.
Snap(s) == [rows |-> bso[s], uc |-> user_collections[s], staged |-> batches[s]]

DbInit ==
    /\ bso = [s \in Slots |-> EmptyMap]
    /\ user_collections = [s \in Slots |-> None]
    /\ batches = [s \in Slots |-> EmptyMap]
    /\ lapsed = {}
    /\ last_ts = 0
    /\ req = NoReq
    /\ last = NoReq
    /\ committed = {}
    /\ w_ts = <<0, 0>>
    /\ t_ts = <<0, 0>>

Init == CacheInit /\ PoolInit /\ MockInit /\ DbInit

SpecCache ==
    Init /\ [][CacheNext /\ UNCHANGED <<poolVars, mockVars, dbVars>>]_vars

\* The step a thread inside a call takes next: a lock acquisition, or the
\* map access that ends with the guard dropped.
Advance(t) ==
    /\ \/ PutLockName(t) \/ PutInsertName(t) \/ PutLockId(t) \/ PutInsertId(t)
       \/ GetIdLock(t) \/ GetIdRead(t)
       \/ GetNameLock(t) \/ GetNameRead(t)
    /\ UNCHANGED <<poolVars, mockVars, dbVars>>

\* The cache under fair lock scheduling: a thread that can take its lock
\* again and again does take it, and a thread holding a lock goes on.
\* Nothing obliges a thread to make a further call.
SpecCacheFair == SpecCache /\ \A t \in Threads : SF_vars(Advance(t))


\* Calls on the mock backend.
SpecMock ==
    Init /\ [][MockNext /\ UNCHANGED <<cacheVars, poolVars, dbVars>>]_vars

(***************************************************************************)
(* Timestamp source: strictly increasing; a wall clock reading w that      *)
(* repeats or regresses is replaced by the latest value plus one           *)
(* millisecond.                                                            *)
(***************************************************************************)
\* A source that hands out a repeated wall clock reading as it is.
NowRepeats(w) == IF w >= last_ts THEN w ELSE last_ts + 1

\* The timestamp for a wall clock reading w.
Now(w) == IF w > last_ts THEN w ELSE last_ts + 1

(***************************************************************************)
(* Backend operations on one slot.                                         *)
(***************************************************************************)

\* post_bsos / put_bso: upsert every supplied BSO with the transaction's
\* modified.
PostBsosRows(rows, bsos, ts) ==
    [i \in (DOMAIN rows) \cup (DOMAIN bsos) |->
        IF i \in DOMAIN bsos THEN [payload |-> bsos[i], modified |-> ts]
                             ELSE rows[i]]

\* append_to_batch: staged BSOs, last writer wins per id.
StageBsos(staged, bsos) ==
    [i \in (DOMAIN staged) \cup (DOMAIN bsos) |->
        IF i \in DOMAIN bsos THEN bsos[i] ELSE staged[i]]

\* commit_batch: the staged BSOs are written to bso as by post_bsos.
CommitRows(rows, staged, ts) == PostBsosRows(rows, staged, ts)

\* A map without one key.
Without(m, k) == [x \in (DOMAIN m) \ {k} |-> m[x]]

\* validate_batch: the batch row exists and its TTL has not run out.
ValidateBatch(s, id) == id \in DOMAIN batches[s] /\ <<s, id>> \notin lapsed

\* get_batch: the batch, or None when validate_batch would say false.
GetBatch(s, id) == IF ValidateBatch(s, id) THEN Some(batches[s][id]) ELSE None

\* The user_collections row other transactions see: the one in flight has
\* not committed its own.
DurableUc(s) ==
    IF req.pc # "idle" /\ SlotOf(req) = s THEN req.pre.uc
                                           ELSE user_collections[s]

Max(S) == IF S = {} THEN 0 ELSE CHOOSE x \in S : \A y \in S : y <= x

\* get_collection_timestamps: the modified of each collection the user has
\* a user_collections row for.
CollectionTimestamps(uc, u) ==
    [c \in {x \in Colls : uc[<<u, x>>] # None} |-> uc[<<u, c>>][1]]

\* A storage timestamp that is the oldest collection's, not the newest's.
OldestCollectionTimestamp(uc, u) ==
    LET S == {uc[s][1] : s \in {x \in Slots : x[1] = u /\ uc[x] # None}}
    IN IF S = {} THEN 0 ELSE CHOOSE x \in S : \A y \in S : x <= y

\* get_storage_timestamp: the maximum over the user's collections, zero
\* when there is none.
StorageTimestamp(uc, u) ==
    Max({uc[s][1] : s \in {x \in Slots : x[1] = u /\ uc[x] # None}})

\* extract_resource(user, Some(collection), None): the collection's
\* modified when its row exists, else the storage timestamp.
ExtractResource(uc, s) ==
    IF uc[s] # None THEN uc[s][1] ELSE StorageTimestamp(uc, s[1])

\* The handler-visible status of an error kind.
ErrStatus(kind) ==
    CASE kind = "BatchNotFound" -> 400
      [] kind = "Conflict" -> 503
      [] kind = "CollectionNotFound" -> 404
      [] kind = "BsoNotFound" -> 404
      [] OTHER -> 500

ErrResp(kind) == [NoResp EXCEPT !.status = ErrStatus(kind), !.err = kind]

IsOk(resp) == resp.status \in {200, 202}

\* The modified a statement of transaction r can run with, over every wall
\* clock reading (one that repeats or regresses included), leaving `room`
\* timestamps below MaxTime.
Stamps(r, room) ==
    IF r.ts = None THEN {Now(w) : w \in 0..MaxTime} \cap 1..(MaxTime - room)
                   ELSE {r.ts[1]}

\* Transaction r takes ts as its modified unless it has one.
TakeTs(r, ts) ==
    /\ t_ts' = IF r.ts = None THEN <<t_ts[2], ts>> ELSE t_ts
    /\ last_ts' = IF r.ts = None THEN ts ELSE last_ts

\* A write operation of transaction r took place with modified ts.
LogWrite(r, ts) == w_ts' = <<w_ts[2], ts>> /\ TakeTs(r, ts)

\* Timestamps an in-flight batched POST still has to be able to take.
Reserved == IF req.pc # "idle" /\ req.ts = None THEN 1 ELSE 0

\* For a GET: the request that finished just before it, when that was a
\* delete_collection of the same collection that succeeded: the timestamp it
\* returned, and whether it kept the user_collections row.
DeletedJustBefore(r) ==
    IF /\ r.kind = "get_collection"
       /\ last.pc = "finished" /\ last.kind = "delete_collection"
       /\ last.ids = {} /\ last.op_err = "" /\ IsOk(last.resp)
       /\ SlotOf(last) = SlotOf(r)
      THEN Some([at |-> last.resp.body[1], kept |-> last.post.uc # None])
      ELSE None

\* The handler of request r returned resp with the slot at (rows, uc,
\* staged).  The db middleware commits the transaction on a success status
\* and rolls it back on an error, and the write lock is released.
Complete(r, resp, rows, uc, staged, inflight) ==
    LET s == SlotOf(r)
        after == IF IsOk(resp) THEN [rows |-> rows, uc |-> uc, staged |-> staged]
                               ELSE r.pre
    IN /\ bso' = [bso EXCEPT ![s] = after.rows]
       /\ user_collections' = [user_collections EXCEPT ![s] = after.uc]
       /\ batches' = [batches EXCEPT ![s] = after.staged]
       /\ last' = [r EXCEPT !.pc = "finished", !.resp = resp, !.post = after,
                            !.deleted = DeletedJustBefore(r)]
       /\ req' = IF inflight THEN NoReq ELSE req

\* Bodies a client posts (coll.bsos): the BSOs that passed the request layer,
\* as id -> payload, and the ids it rejected.
Body(valid, invalid) == [valid |-> valid, invalid |-> invalid]

Bodies ==
    { Body(EmptyMap, {}),
      Body([i \in {"b1"} |-> "p1"], {}),
      Body([i \in {"b1"} |-> "p2"], {"bad"}),
      Body([i \in {"b2"} |-> "p1"], {}),
      Body([i \in {"b1", "b2"} |-> "p2"], {}) }

\* The collection batched uploads go to.
BatchColls == {"bookmarks"}

(***************************************************************************)
(* post_collection_batch (handlers.rs 213-353).  post_collection calls it  *)
(* only with coll.batch present, so the BatchNotFound of lines 218-225 is  *)
(* never taken.                                                            *)
(***************************************************************************)

BatchReq(u, c, id, commit, valid, invalid) ==
    [NoReq EXCEPT !.kind = "post_collection_batch", !.user = u, !.coll = c,
                  !.batch = Some([id |-> id, commit |-> commit]),
                  !.valid = valid, !.invalid = invalid,
                  !.pre = Snap(<<u, c>>),
                  !.was_committed =
                      (id # None /\ <<<<u, c>>, id[1]>> \in committed)]

\* Line 237 without the check, and with the check inverted.
AcceptAnyBatchId(is_valid) == TRUE

AcceptInvalidBatchId(is_valid) == ~is_valid

\* The validation result that lets the request go on (line 237).
BatchIdAccepted(is_valid) == is_valid

\* Lines 227-244: breq.id is Some(id): validate_batch, then BatchNotFound
\* unless it said true.
BatchValidate(u, c, id, commit, valid, invalid) ==
    LET s == <<u, c>>
        v == ValidateBatch(s, id)
        r == [BatchReq(u, c, Some(id), commit, valid, invalid) EXCEPT
                 !.calls = <<"validate_batch">>, !.is_valid = Some(v)]
    IN /\ req.pc = "idle"
       /\ \/ /\ BatchIdAccepted(v)
             /\ last_ts < MaxTime
             /\ req' = [r EXCEPT !.pc = "stage", !.id = Some(id)]
             /\ last' = NoReq
             /\ UNCHANGED <<bso, user_collections, batches, lapsed, last_ts,
                            committed, w_ts, t_ts>>
          \/ /\ ~BatchIdAccepted(v)
             /\ Complete([r EXCEPT !.op_err = "BatchNotFound"],
                         ErrResp("BatchNotFound"),
                         bso[s], user_collections[s], batches[s], FALSE)
             /\ UNCHANGED <<lapsed, last_ts, committed, w_ts, t_ts>>

\* Line 249 with the BSOs of the request handed to create_batch.
CreateWithRequestBsos(valid) == valid

\* Line 249: `bsos: vec![]`, whatever the request carries.
CreateBatchBsos(valid) == EmptyMap

\* Lines 245-251: no id was supplied: create_batch with no BSOs.  The batch
\* id is the creation timestamp.
BatchCreate(u, c, commit, valid, invalid) ==
    LET s == <<u, c>>
        r == [BatchReq(u, c, None, commit, valid, invalid) EXCEPT
                 !.calls = <<"create_batch">>]
    IN /\ req.pc = "idle"
       /\ \E ts \in Stamps(r, 0) :
            /\ batches' = [batches EXCEPT ![s] =
                               StageBsos(@, [i \in {ts} |-> CreateBatchBsos(valid)])]
            /\ req' = [r EXCEPT !.pc = "stage", !.id = Some(ts), !.ts = Some(ts)]
            /\ LogWrite(r, ts)
       /\ last' = NoReq
       /\ UNCHANGED <<bso, user_collections, lapsed, committed>>

\* Line 303 without its arm: a conflict treated as any other error.
NeverConflict(e) == FALSE

\* Line 303: e.is_conflict().
IsConflict(e) == e = "Conflict"

\* The commit fast path is taken (line 264).
WritesDirectly(r) == r.batch[1].commit /\ r.valid # EmptyMap

\* Line 258 with failed starting empty.
NoInitialFailed(invalid) == {}

\* Line 258: `let mut failed = coll.bsos.invalid.clone()`.
InitialFailed(invalid) == invalid

\* Lines 300-309 on an error e of the staging call: a conflict is returned,
\* anything else marks every id of the request as failed.
StageFailed(r, e) ==
    IF IsConflict(e)
      THEN /\ Complete([r EXCEPT !.op_err = e], ErrResp(e),
                       bso[SlotOf(r)], user_collections[SlotOf(r)],
                       batches[SlotOf(r)], TRUE)
           /\ UNCHANGED <<lapsed, last_ts, committed, w_ts, t_ts>>
      ELSE /\ req' = [r EXCEPT !.pc = "respond", !.op_err = e,
                               !.failed = @ \cup DOMAIN r.valid]
           /\ UNCHANGED <<bso, user_collections, batches, lapsed, last_ts,
                          last, committed, w_ts, t_ts>>

\* Lines 264-291: commit with BSOs in the request: post_bsos writes them to
\* bso at once.
BatchPostBsos ==
    LET s == SlotOf(req)
        r == [req EXCEPT !.calls = Append(@, "post_bsos"), !.failed = InitialFailed(req.invalid)]
    IN /\ req.pc = "stage"
       /\ WritesDirectly(req)
       /\ \/ \E ts \in Stamps(req, 0) :
                  /\ bso' = [bso EXCEPT ![s] = PostBsosRows(@, req.valid, ts)]
                  /\ user_collections' = [user_collections EXCEPT ![s] = Some(ts)]
                  /\ req' = [r EXCEPT !.pc = "respond", !.ts = Some(ts),
                                      !.success = DOMAIN req.valid]
                  /\ LogWrite(req, ts)
                  /\ UNCHANGED <<batches, lapsed, last, committed>>
          \/ \E e \in Faults : StageFailed(r, e)

\* Lines 292-299: otherwise append_to_batch stages them; it fails with
\* BatchNotFound when the batch is no longer valid.
BatchAppend ==
    LET s == SlotOf(req)
        id == req.id[1]
        r == [req EXCEPT !.calls = Append(@, "append_to_batch"), !.failed = InitialFailed(req.invalid)]
    IN /\ req.pc = "stage"
       /\ ~WritesDirectly(req)
       /\ \/ /\ ValidateBatch(s, id)
             /\ \E ts \in Stamps(req, 0) :
                     /\ batches' = [batches EXCEPT ![s][id] = StageBsos(@, req.valid)]
                     /\ req' = [r EXCEPT !.pc = "respond", !.ts = Some(ts),
                                         !.success = DOMAIN req.valid]
                     /\ TakeTs(req, ts)
             /\ UNCHANGED <<bso, user_collections, lapsed, last, committed, w_ts>>
          \/ /\ ~ValidateBatch(s, id)
             /\ StageFailed(r, "BatchNotFound")
          \/ \E e \in Faults : StageFailed(r, e)

\* Lines 318-321: without commit the answer is 202 Accepted with the batch id.
BatchAccepted ==
    LET s == SlotOf(req)
    IN /\ req.pc = "respond"
       /\ ~req.batch[1].commit
       /\ Complete(req, [NoResp EXCEPT !.status = 202, !.success = req.success,
                                       !.failed = req.failed, !.batch = req.id],
                   bso[s], user_collections[s], batches[s], TRUE)
       /\ UNCHANGED <<lapsed, last_ts, committed, w_ts, t_ts>>

\* Lines 323-349: get_batch, then commit_batch on what it returned, or
\* BatchNotFound when it returned none.
BatchCommit ==
    LET s == SlotOf(req)
        id == req.id[1]
        batch == GetBatch(s, id)
        r1 == [req EXCEPT !.calls = Append(@, "get_batch")]
        r2 == [r1 EXCEPT !.calls = Append(@, "commit_batch")]
    IN /\ req.pc = "respond"
       /\ req.batch[1].commit
       /\ \/ /\ batch = None
             /\ Complete(r1, ErrResp("BatchNotFound"),
                         bso[s], user_collections[s], batches[s], TRUE)
             /\ UNCHANGED <<lapsed, last_ts, committed, w_ts, t_ts>>
          \/ /\ batch # None
             /\ \E ts \in Stamps(req, 0) :
                     /\ Complete([r2 EXCEPT !.ts = Some(ts)],
                                 [NoResp EXCEPT !.status = 200,
                                                !.success = req.success,
                                                !.failed = req.failed,
                                                !.modified = Some(ts)],
                                 CommitRows(bso[s], batch[1], ts), Some(ts),
                                 Without(batches[s], id), TRUE)
                     /\ LogWrite(req, ts)
             /\ committed' = committed \cup {<<s, id>>}
             /\ UNCHANGED lapsed
          \/ /\ batch # None
             /\ \E e \in Faults :
                  Complete([r2 EXCEPT !.op_err = e], ErrResp(e),
                           bso[s], user_collections[s], batches[s], TRUE)
             /\ UNCHANGED <<lapsed, last_ts, committed, w_ts, t_ts>>

\* The TTL of a batch runs out.
Expire(s, id) ==
    /\ id \in DOMAIN batches[s]
    /\ <<s, id>> \notin lapsed
    /\ lapsed' = lapsed \cup {<<s, id>>}
    /\ UNCHANGED <<bso, user_collections, batches, last_ts, req, last,
                   committed, w_ts, t_ts>>

(***************************************************************************)
(* The single-call handlers.  Each runs as one step: the db middleware     *)
(* takes the collection lock, the handler makes its calls, the transaction *)
(* commits or rolls back.  A slot a batched POST holds is not available.   *)
(***************************************************************************)

Free(s) == req.pc = "idle" \/ SlotOf(req) # s

\* A backend failure of a single-call handler's call.
StoreFaults == {"Internal"}

\* The user_collections rows a transaction on slot s reads: its own slot as
\* it stands, the others as committed.
UcView(s) == [x \in Slots |-> IF x = s THEN user_collections[x] ELSE DurableUc(x)]

\* put_bso (handlers.rs 385-402): the new modified, as body and as
\* X-Last-Modified; an error is returned as it is.
PutBso(u, c, id, payload) ==
    LET s == <<u, c>>
        r == [NoReq EXCEPT !.kind = "put_bso", !.user = u, !.coll = c,
                           !.bso = id, !.valid = [i \in {id} |-> payload],
                           !.pre = Snap(s), !.calls = <<"put_bso">>]
    IN /\ Free(s)
       /\ \/ \E ts \in Stamps(r, Reserved) :
               /\ Complete([r EXCEPT !.ts = Some(ts)],
                           [NoResp EXCEPT !.status = 200, !.body = Some(ts),
                                          !.last_modified = Some(ts)],
                           PostBsosRows(bso[s], r.valid, ts), Some(ts),
                           batches[s], FALSE)
               /\ LogWrite(r, ts)
               /\ UNCHANGED <<lapsed, committed>>
          \/ \E e \in StoreFaults :
               /\ Complete([r EXCEPT !.op_err = e], ErrResp(e),
                           bso[s], user_collections[s], batches[s], FALSE)
               /\ UNCHANGED <<lapsed, last_ts, committed, w_ts, t_ts>>

\* Line 101 without its is_bso_not_found() half.
SwallowsOnlyCollectionNotFound(e) == e = "CollectionNotFound"

\* The errors of a delete the handler answers with the storage timestamp
\* (line 101).
DeleteSwallows(e) == e \in {"CollectionNotFound", "BsoNotFound"}

\* Lines 100-114 on an error e of the delete: get_storage_timestamp stands
\* in for a missing collection or BSO, any other error is returned.
DeleteFailed(r, e) ==
    LET s == SlotOf(r)
        r1 == [r EXCEPT !.op_err = e]
        r2 == [r1 EXCEPT !.calls = Append(@, "get_storage_timestamp")]
        st == StorageTimestamp(UcView(s), r.user)
    IN /\ IF DeleteSwallows(e)
            THEN Complete(r2, [NoResp EXCEPT !.status = 200, !.body = Some(st),
                                  !.last_modified =
                                      IF r.ids # {} THEN Some(st) ELSE None],
                          bso[s], user_collections[s], batches[s], FALSE)
            ELSE Complete(r1, ErrResp(e),
                          bso[s], user_collections[s], batches[s], FALSE)
       /\ UNCHANGED <<lapsed, last_ts, committed, w_ts, t_ts>>

\* Lines 108-114: the delete's timestamp is the body, and X-Last-Modified
\* when BSO ids were given.
DeleteDone(r, ts, rows, uc) ==
    /\ Complete([r EXCEPT !.ts = Some(ts)],
                [NoResp EXCEPT !.status = 200, !.body = Some(ts),
                               !.last_modified =
                                   IF r.ids # {} THEN Some(ts) ELSE None],
                rows, uc, batches[SlotOf(r)], FALSE)
    /\ LogWrite(r, ts)
    /\ UNCHANGED <<lapsed, committed>>

\* A delete that keeps the user_collections row but leaves it an older
\* modified.
RowKeepsOlderModified(ts, keep) == IF keep THEN Some(ts - 1) ELSE None

\* The user_collections row after the backend's delete_collection at ts: kept
\* with the delete's modified, or physically removed.
RowAfterDelete(ts, keep) == IF keep THEN Some(ts) ELSE None

\* delete_collection (handlers.rs 80-115).  With ids in the query it calls
\* delete_bsos, which fails with BsoNotFound when none matched; without, it
\* calls delete_collection, which fails with CollectionNotFound when the
\* user has no such collection and otherwise removes its BSOs and either
\* removes the user_collections row or keeps it with the new modified.
DeleteCollection(u, c, ids) ==
    LET s == <<u, c>>
        op == IF ids # {} THEN "delete_bsos" ELSE "delete_collection"
        r == [NoReq EXCEPT !.kind = "delete_collection", !.user = u, !.coll = c,
                           !.ids = ids, !.pre = Snap(s), !.calls = <<op>>]
    IN /\ Free(s)
       /\ \/ /\ user_collections[s] = None
             /\ DeleteFailed(r, "CollectionNotFound")
          \/ /\ user_collections[s] # None
             /\ ids # {}
             /\ ids \cap DOMAIN bso[s] = {}
             /\ DeleteFailed(r, "BsoNotFound")
          \/ /\ user_collections[s] # None
             /\ ids # {}
             /\ ids \cap DOMAIN bso[s] # {}
             /\ \E ts \in Stamps(r, Reserved) :
                  DeleteDone(r, ts,
                             [i \in (DOMAIN bso[s]) \ ids |-> bso[s][i]], Some(ts))
          \/ /\ user_collections[s] # None
             /\ ids = {}
             /\ \E ts \in Stamps(r, Reserved), keep \in BOOLEAN :
                  DeleteDone(r, ts, EmptyMap, RowAfterDelete(ts, keep))
          \/ \E e \in StoreFaults : DeleteFailed(r, e)

\* The order get_bsos lists ids in.
IdOrder == <<"b1", "b2">>

Min(a, b) == IF a <= b THEN a ELSE b

\* get_bsos / get_bso_ids: one page of the collection's BSOs (their ids
\* when full is false); offset is Some(token) iff more remain.
Page(rows, full, limit, offset) ==
    LET present(i) == i \in DOMAIN rows
        all == SelectSeq(IdOrder, present)
        end == IF limit = 0 THEN Len(all) ELSE Min(Len(all), offset + limit)
        ids == SubSeq(all, offset + 1, end)
    IN [items |-> [k \in DOMAIN ids |->
                     IF full THEN [id |-> ids[k], payload |-> rows[ids[k]].payload,
                                   modified |-> rows[ids[k]].modified]
                             ELSE ids[k]],
        offset |-> IF end < Len(all) THEN Some(end) ELSE None]

\* Paginated::default()
EmptyPage == [items |-> <<>>, offset |-> None]

\* Line 147 without its is_collection_not_found() test.
SwallowsEveryError(e) == TRUE

\* The errors of get_bsos a GET answers with an empty page (line 147).
GetSwallows(e) == e = "CollectionNotFound"

\* Lines 167-169 with the if_some dropped: no X-Weave-Next-Offset at all.
NoNextOffset(page) == None

\* Lines 167-169: X-Weave-Next-Offset is set, to the page's token itself,
\* when the page has an offset; it is absent otherwise.
NextOffsetHeader(page) == page.offset

\* Line 166: X-Weave-Records is result.items.len().
RecordsHeader(page) == Len(page.items)

\* Lines 156-185: extract_resource gives X-Last-Modified; X-Weave-Records
\* counts the items; X-Weave-Next-Offset is present iff the page has an
\* offset.
GetAnswer(r, page) ==
    LET s == SlotOf(r)
    IN Complete([r EXCEPT !.calls = Append(@, "extract_resource")],
                [NoResp EXCEPT !.status = 200,
                               !.last_modified = Some(ExtractResource(UcView(s), s)),
                               !.records = RecordsHeader(page),
                               !.next_offset = NextOffsetHeader(page),
                               !.items = page.items],
                bso[s], user_collections[s], batches[s], FALSE)

\* Lines 146-154 on an error e of get_bsos.
GetFailed(r, e) ==
    IF GetSwallows(e)
      THEN GetAnswer([r EXCEPT !.op_err = e], EmptyPage)
      ELSE Complete([r EXCEPT !.op_err = e], ErrResp(e),
                    bso[SlotOf(r)], user_collections[SlotOf(r)],
                    batches[SlotOf(r)], FALSE)

\* get_collection (handlers.rs 117-187).  get_bsos fails with
\* CollectionNotFound when the user has no such collection.
GetCollection(u, c, full, limit, offset) ==
    LET s == <<u, c>>
        r == [NoReq EXCEPT !.kind = "get_collection", !.user = u, !.coll = c,
                           !.full = full, !.limit = limit, !.offset = offset,
                           !.pre = Snap(s),
                           !.calls = <<IF full THEN "get_bsos" ELSE "get_bso_ids">>]
    IN /\ Free(s)
       /\ \/ /\ user_collections[s] = None
             /\ GetFailed(r, "CollectionNotFound")
          \/ /\ user_collections[s] # None
             /\ GetAnswer(r, Page(bso[s], full, limit, offset))
          \/ \E e \in StoreFaults : GetFailed(r, e)
       /\ UNCHANGED <<lapsed, last_ts, committed, w_ts, t_ts>>

\* Line 76 with the error of begin dropped instead of returned by `?`.
IgnoresBeginError(res) == FALSE

\* Line 76: `db.begin(true).await?` returns from the handler on every error
\* of begin.
BeginFailed(res) == res # "Ok"

\* The answer of delete_all with the calls it made.
DeleteAllDone(r, calls, e, resp) ==
    last' = [r EXCEPT !.pc = "finished", !.calls = calls, !.op_err = e,
                      !.resp = resp]

\* delete_all (handlers.rs 69-78): begin(true), then delete_storage, whose
\* timestamp is the body.  delete_storage removes every row of the user; it
\* waits for a write transaction in flight on the user's rows.
DeleteAll(u, begun) ==
    LET r == [NoReq EXCEPT !.kind = "delete_all", !.user = u, !.begun = begun]
        mine == {x \in Slots : x[1] = u}
    IN /\ req.pc = "idle"
       /\ UNCHANGED <<req, committed>>
       /\ IF BeginFailed(begun)
            THEN /\ DeleteAllDone(r, <<"begin(true)">>, begun, ErrResp(begun))
                 /\ UNCHANGED <<bso, user_collections, batches, lapsed,
                                last_ts, w_ts, t_ts>>
            ELSE \/ \E ts \in Stamps(r, 0) :
                      /\ bso' = [x \in Slots |->
                                   IF x \in mine THEN EmptyMap ELSE bso[x]]
                      /\ user_collections' =
                             [x \in Slots |->
                                 IF x \in mine THEN None ELSE user_collections[x]]
                      /\ batches' = [x \in Slots |->
                                       IF x \in mine THEN EmptyMap ELSE batches[x]]
                      /\ lapsed' = {x \in lapsed : x[1] \notin mine}
                      /\ DeleteAllDone([r EXCEPT !.ts = Some(ts)],
                                       <<"begin(true)", "delete_storage">>, "",
                                       [NoResp EXCEPT !.status = 200,
                                                      !.body = Some(ts)])
                      /\ LogWrite(r, ts)
                 \/ \E e \in StoreFaults :
                      /\ DeleteAllDone(r, <<"begin(true)", "delete_storage">>, e,
                                       ErrResp(e))
                      /\ UNCHANGED <<bso, user_collections, batches, lapsed,
                                     last_ts, w_ts, t_ts>>

\* What db.check() can come back with.
CheckOutcomes == {"Ok(true)", "Ok(false)", "Err"}

\* Lines 418-439: every Ok of check, true or false, is answered with
\* HttpResponse::Ok; only an Err with ServiceUnavailable.
HeartbeatStatus(res) == IF res = "Err" THEN 503 ELSE 200

\* Lines 429-430 and 435: the "status" entry of the checklist.
HeartbeatChecklist(res) == IF res = "Ok(true)" THEN "Ok" ELSE "Err"

\* heartbeat (handlers.rs 411-440), run by a task through its handle hb.db.
Heartbeat(res) ==
    /\ \E t \in Tasks : task[t].pc = "holding"
    /\ last' = [NoReq EXCEPT !.pc = "finished", !.kind = "heartbeat",
                             !.calls = <<"check">>, !.check = res,
                             !.resp = [NoResp EXCEPT
                                          !.status = HeartbeatStatus(res),
                                          !.body = Some(HeartbeatChecklist(res))]]
    /\ UNCHANGED <<bso, user_collections, batches, lapsed, last_ts, req,
                   committed, w_ts, t_ts>>

\* The steps of batched POSTs to the collections colls with the bodies.
BatchSteps(colls, bodies) ==
    \/ \E u \in Users, c \in colls, id \in Timestamps, commit \in BOOLEAN,
          b \in bodies :
          BatchValidate(u, c, id, commit, b.valid, b.invalid)
    \/ \E u \in Users, c \in colls, commit \in BOOLEAN, b \in bodies :
          BatchCreate(u, c, commit, b.valid, b.invalid)
    \/ BatchPostBsos
    \/ BatchAppend
    \/ BatchAccepted
    \/ BatchCommit
    \/ \E s \in Slots, id \in Timestamps : Expire(s, id)

\* The batch protocol on its own.
Next ==
    BatchSteps(BatchColls, Bodies) /\ UNCHANGED <<cacheVars, poolVars, mockVars>>

Spec == Init /\ [][Next]_vars

\* Bodies of the batched POSTs that run beside the single-call handlers.
StoreBodies == {Body([i \in {"b1"} |-> "p1"], {})}

\* What a GET asks for: full records without limit, or ids one per page.
Queries == {[full |-> TRUE, limit |-> 0, offset |-> 0],
            [full |-> FALSE, limit |-> 1, offset |-> 0]}

\* The GETs of a client paging through a collection one id at a time: the
\* first page, and the page at the token the first page can carry.
PageQueries == Queries \cup {[full |-> FALSE, limit |-> 1, offset |-> 1]}


\* Every handler: a batched POST in flight, and puts, deletes and GETs on
\* either collection between its steps.
StoreNext ==
    /\ \/ BatchSteps(BatchColls, StoreBodies)
       \/ \E u \in Users, c \in Colls, id \in BsoIds, p \in {"p1"} :
             PutBso(u, c, id, p)
       \/ \E u \in Users, c \in Colls, ids \in {{}, {"b1"}} :
             DeleteCollection(u, c, ids)
       \/ \E u \in Users, c \in Colls, q \in Queries :
             GetCollection(u, c, q.full, q.limit, q.offset)
    /\ UNCHANGED <<cacheVars, poolVars, mockVars>>

SpecStore == Init /\ [][StoreNext]_vars

\* The single-call handlers alone, one request after the other: puts,
\* deletes of BSOs, of a collection and of the whole storage, and GETs page
\* by page.
SingleNext ==
    /\ \/ \E u \in Users, c \in Colls, id \in BsoIds, p \in {"p1"} :
             PutBso(u, c, id, p)
       \/ \E u \in Users, c \in Colls, ids \in {{}, {"b1"}} :
             DeleteCollection(u, c, ids)
       \/ \E u \in Users, c \in Colls, q \in PageQueries :
             GetCollection(u, c, q.full, q.limit, q.offset)
       \/ \E u \in Users, begun \in {"Ok"} \cup StoreFaults : DeleteAll(u, begun)
    /\ UNCHANGED <<cacheVars, poolVars, mockVars>>

SpecSingle == Init /\ [][SingleNext]_vars

\* Pools, their clones, the handles tasks take from them, and the heartbeat
\* probing the backend through a handle.
HandleNext ==
    \/ PoolNext /\ UNCHANGED <<cacheVars, mockVars, dbVars>>
    \/ /\ \E res \in CheckOutcomes : Heartbeat(res)
       /\ UNCHANGED <<cacheVars, poolVars, mockVars>>

SpecPool == Init /\ [][HandleNext]_vars

(***************************************************************************)
(* Claims about the cache.                                                 *)
(***************************************************************************)

InPut(t) == th[t].pc \in {"put_lock_name", "put_insert_name",
                          "put_lock_id", "put_insert_id"}

\* Exactly one of the two directions of the pairing (id, name) is in place.
HalfPairing(id, name) ==
    (Lookup(by_name, name) = Some(id)) # (Lookup(by_id, id) = Some(name))

\* Thread t's last call was get_id(name) and it has returned.
ReturnedId(t, name) ==
    th[t].pc = "idle" /\ th[t].op = "get_id" /\ th[t].name = name

\* Thread t's last call was get_name(id) and it has returned.
ReturnedName(t, id) ==
    th[t].pc = "idle" /\ th[t].op = "get_name" /\ th[t].id = id

\* C1: put(id, name) is atomic with respect to readers: while a put is between
\* its two inserts and both maps are open to readers, a reader never finds
\* only one half of the pairing (get_id(name) = id without get_name(id) =
\* name, or the reverse).
C1_PutAtomicForReaders ==
    \A t \in Threads :
        (th[t].pc = "put_lock_id" /\ CanRead(name_lock) /\ CanRead(id_lock))
            => ~HalfPairing(th[t].id, th[t].name)

IsBatch(r) == r.pc = "finished" /\ r.kind = "post_collection_batch"

\* What earlier requests had staged in the batch request r names.
Staged(r) ==
    IF r.id # None /\ r.id[1] \in DOMAIN r.pre.staged
      THEN r.pre.staged[r.id[1]] ELSE EmptyMap

\* Request r wrote BSO i: its row carries r's modified.
Wrote(r, i) ==
    /\ r.ts # None
    /\ i \in DOMAIN r.post.rows
    /\ r.post.rows[i].modified = r.ts[1]

\* C2: staging is last-writer-wins per BSO id: after a commit, a BSO id that
\* was staged by an earlier request and supplied again (and accepted) in the
\* committing request holds the committing request's value in bso.
C2_LastWriterWins ==
    (IsBatch(last) /\ last.resp.status = 200)
        => \A i \in last.resp.success \cap DOMAIN Staged(last) :
              /\ i \in DOMAIN last.post.rows
              /\ last.post.rows[i].payload = last.valid[i]

\* C3: a batch is atomic on commit: when a commit=true request has finished,
\* either every BSO of the batch (staged before, or valid in the committing
\* request) was written by it or none was.
C3_CommitAllOrNothing ==
    (IsBatch(last) /\ last.batch[1].commit)
        => LET all == (DOMAIN Staged(last)) \cup (DOMAIN last.valid)
           IN \/ \A i \in all : Wrote(last, i)
              \/ \A i \in all : ~Wrote(last, i)

\* C4: a request naming a batch id for which validate_batch returned false
\* fails with BatchNotFound (400), made no call but validate_batch, and left
\* the stored BSOs, the collection row and the batches as they were.
C4_InvalidBatchRejected ==
    (IsBatch(last) /\ last.is_valid = Some(FALSE))
        => /\ last.resp.err = "BatchNotFound"
           /\ last.resp.status = 400
           /\ last.calls = <<"validate_batch">>
           /\ last.post = last.pre

\* C4's case: the batch named exists with staged BSOs, but its TTL ran out.
C4_Witness ==
    /\ IsBatch(last) /\ last.is_valid = Some(FALSE)
    /\ <<SlotOf(last), last.batch[1].id[1]>> \in lapsed
    /\ last.batch[1].id[1] \in DOMAIN last.pre.staged
    /\ last.pre.staged[last.batch[1].id[1]] # EmptyMap

\* C6: the commit fast path equals staging: a successful commit request
\* whose BSOs were written with post_bsos leaves the rows and the collection
\* modified that append_to_batch followed by commit_batch (one post_bsos of
\* the merged set) would have left.
C6_FastPathEqualsStaging ==
    (IsBatch(last) /\ last.resp.status = 200 /\ WritesDirectly(last)
     /\ last.resp.success = DOMAIN last.valid)
        => /\ last.post.rows =
                 CommitRows(last.pre.rows, StageBsos(Staged(last), last.valid),
                            last.ts[1])
           /\ last.post.uc = last.ts

\* C7: a batch is consumed by its commit: a committed batch has no record
\* left, no request naming it gets past validation (so commit_batch runs at
\* most once on it), and such a request fails with BatchNotFound.
C7_CommittedBatchIsConsumed ==
    /\ \A p \in committed : p[2] \notin DOMAIN batches[p[1]]
    /\ ~(req.pc # "idle" /\ req.was_committed)
    /\ (IsBatch(last) /\ last.was_committed)
          => (last.resp.err = "BatchNotFound" /\ "commit_batch" \notin
                 {last.calls[k] : k \in DOMAIN last.calls})

\* C7's case: a request names a batch an earlier request committed.
C7_Witness ==
    /\ IsBatch(last) /\ last.was_committed
    /\ last.batch[1].commit
    /\ last.pre.rows # EmptyMap

(***************************************************************************)
(* Claims about timestamps and the single-call handlers (under SpecStore). *)
(***************************************************************************)

\* C8 as claimed: of any two consecutive write operations of a user, the
\* later has the strictly greater modified.
C8_WriteOperationsStrictlyOrdered == w_ts[1] > 0 => w_ts[2] > w_ts[1]

\* C8 as amended: of any two write transactions of a user, the one that took
\* its timestamp later has the strictly greater modified, and no row or
\* collection carries a modified the source has not handed out.
C8_TransactionsStrictlyOrdered ==
    /\ t_ts[1] > 0 => t_ts[2] > t_ts[1]
    /\ t_ts[2] = last_ts
    /\ \A s \in Slots :
          /\ user_collections[s] # None => user_collections[s][1] \in 1..last_ts
          /\ \A i \in DOMAIN bso[s] : bso[s][i].modified \in 1..last_ts

\* C8's case: while a batched POST that has taken its timestamp is in
\* flight, a put to another collection completes with a later one.
C8_Witness ==
    /\ req.pc = "respond" /\ req.ts = Some(1)
    /\ last.pc = "finished" /\ last.kind = "put_bso" /\ last.ts = Some(2)
    /\ last.coll # req.coll
    /\ t_ts = <<1, 2>>

\* The user's storage timestamp as committed.
DurableStorageTimestamp(u) ==
    StorageTimestamp([x \in Slots |-> DurableUc(x)], u)

Calls(r) == {r.calls[k] : k \in DOMAIN r.calls}

C18_DeleteAllBeginsWriteTransaction ==
    (last.pc = "finished" /\ last.kind = "delete_all")
        => /\ last.calls[1] = "begin(true)"
           /\ "lock_for_write" \notin Calls(last)
           /\ "lock_for_read" \notin Calls(last)
           /\ IF last.begun # "Ok"
                 THEN /\ last.calls = <<"begin(true)">>
                      /\ last.resp.err = last.begun
                      /\ ~IsOk(last.resp)
                 ELSE /\ last.calls = <<"begin(true)", "delete_storage">>
                      /\ IsOk(last.resp) <=> last.op_err = ""

\* C18's case: begin failed while the user had stored BSOs, and they are
\* still there.
C18_Witness ==
    /\ last.pc = "finished" /\ last.kind = "delete_all"
    /\ last.begun = "Internal"
    /\ last.calls = <<"begin(true)">>
    /\ last.resp.err = "Internal"
    /\ \E s \in Slots : bso[s] # EmptyMap

\* The user_collections rows as committed.
DurableRows == [x \in Slots |-> DurableUc(x)]

\* Request r was a write that succeeded.
WroteOk(r) ==
    /\ r.pc = "finished" /\ r.ts # None /\ r.resp.status = 200
    /\ r.kind \in {"put_bso", "delete_collection", "delete_all",
                   "post_collection_batch"}

\* The timestamp a write answered with.
Returned(r) ==
    IF r.kind = "post_collection_batch" THEN r.resp.modified[1]
                                        ELSE r.resp.body[1]

C13_HeartbeatUnavailableWhenProbeFails ==
    (last.pc = "finished" /\ last.kind = "heartbeat")
        => IF last.check = "Ok(true)" THEN last.resp.status = 200
                                      ELSE last.resp.status = 503

(***************************************************************************)
(* Claims about the pool and its handles (under SpecPool).                 *)
(***************************************************************************)

\* The tasks holding a handle with a connection of r2d2 pool p.
Holding(p) == {t \in Tasks : task[t].pc = "holding" /\ task[t].conn = p}

\* C14: the connections checked out of a pool never exceed its fixed size;
\* every handle holds exactly one of them, and a task that finds none free
\* waits (or gives up) without an extra connection being made.
C14_PoolBound ==
    /\ \A p \in PoolRefs :
          /\ out[p] <= PoolSize
          /\ out[p] = Cardinality(Holding(p))
    /\ \A t \in Tasks :
          /\ task[t].pc = "holding" => task[t].conn \in PoolRefs
          /\ task[t].pc # "holding" => task[t].conn = ""

\* C14's case: every connection of a pool is checked out and a further task
\* is waiting in get for one.
C14_Witness ==
    \E p \in PoolRefs, t \in Tasks :
        /\ out[p] = PoolSize
        /\ task[t].pc = "getting"
        /\ pool[task[t].pool][1].conns = p

\* C15: every handle obtained from a pool, or from a clone of it, refers to
\* the pool's one CollectionCache, whenever it was obtained; so a put(id,
\* name) completed through one handle is what get_id(name) and get_name(id)
\* find through every other handle of that pool.
C15_CacheSharedByHandles ==
    /\ [](\A t \in Tasks :
            task[t].pc = "holding"
               => /\ task[t].cache = pool[task[t].pool][1].cache
                  /\ task[t].cache = pool[task[t].conn][1].cache)
    /\ [][\A t \in Tasks, pr \in HandlePuts :
             HandlePut(t, pr[1], pr[2])
                => \A u \in Tasks :
                      (task'[u].pc = "holding" /\ task'[u].conn = task[t].conn)
                         => /\ Lookup(cache_heap'[task'[u].cache].by_name, pr[2])
                                  = Some(pr[1])
                            /\ Lookup(cache_heap'[task'[u].cache].by_id, pr[1])
                                  = Some(pr[2])]_vars

\* C15's case: a task that took its handle from a clone of the pool reads a
\* pairing another task put through a handle of the original.
C15_Witness ==
    \E t, u \in Tasks :
        /\ t # u
        /\ task[t].pc = "holding" /\ task[u].pc = "holding"
        /\ task[t].pool # task[u].pool
        /\ task[t].conn = task[u].conn
        /\ task[t].op = <<"put", 100, "xcoll">>
        /\ task[u].op = <<"get_id", "xcoll">> /\ task[u].ret = Some(100)

\* Every reserved pair is found in both directions and nothing else is held.
Seeded(c) ==
    /\ \A k \in DOMAIN STD_COLLS :
          /\ Lookup(c.by_name, STD_COLLS[k][2]) = Some(STD_COLLS[k][1])
          /\ Lookup(c.by_id, STD_COLLS[k][1]) = Some(STD_COLLS[k][2])
    /\ Cardinality(DOMAIN c.by_name) = Len(STD_COLLS)
    /\ Cardinality(DOMAIN c.by_id) = Len(STD_COLLS)

\* C16: a CollectionCache on which no put has been made since its
\* construction answers get_id(name) = id and get_name(id) = name for every
\* reserved pair and holds no other entry.
C16_CacheSeeded ==
    /\ \A p \in PoolRefs : cache_heap[p].fresh => Seeded(cache_heap[p])
    /\ \A t \in Tasks :
          (task[t].pc = "holding" /\ cache_heap[task[t].cache].fresh)
             => /\ task[t].op = <<"get_id", "clients">> => task[t].ret = Some(1)
                /\ task[t].op = <<"get_id", "xcoll">> => task[t].ret = None
                /\ task[t].op = <<"get_name", 100>> => task[t].ret = None

\* C16's case: a handle looked up a reserved name in a cache nobody has put
\* to, while the process's other pool's cache has been put to.
C16_Witness ==
    \E t \in Tasks :
        /\ task[t].pc = "holding"
        /\ cache_heap[task[t].cache].fresh
        /\ task[t].op = <<"get_id", "clients">> /\ task[t].ret = Some(1)
        /\ \E p \in PoolRefs : pool[p] # None /\ ~cache_heap[p].fresh

(***************************************************************************)
(* Claims about the mock backend (under SpecMock).                         *)
(***************************************************************************)

IsGet(r) == r.pc = "finished" /\ r.kind = "get_collection"

\* The ids a client collects by asking for the collection `rows` page by
\* page, each request carrying the X-Weave-Next-Offset of the answer before,
\* until an answer has none.
RECURSIVE WalkIds(_, _, _)
WalkIds(rows, limit, offset) ==
    LET page == Page(rows, FALSE, limit, offset)
        token == NextOffsetHeader(page)
    IN page.items \o (IF token = None THEN <<>>
                                       ELSE WalkIds(rows, limit, token[1]))

\* C19: a get_collection answer built from a backend page carries
\* X-Weave-Next-Offset iff the page has an offset, with that very token, and
\* X-Weave-Records equal to the number of items of the page; and following
\* the tokens from the first page of the collection the GET read, until an
\* answer has none, visits every BSO id of the collection exactly once.
C19_PaginationContinuation ==
    (IsGet(last) /\ last.resp.status = 200 /\ last.op_err = "")
        => LET rows == last.pre.rows
               page == Page(rows, last.full, last.limit, last.offset)
               walk == WalkIds(rows, last.limit, 0)
           IN /\ (last.resp.next_offset # None) <=> (page.offset # None)
              /\ last.resp.next_offset = page.offset
              /\ last.resp.records = Len(page.items)
              /\ last.resp.items = page.items
              /\ Len(walk) = Cardinality(DOMAIN rows)
              /\ {walk[k] : k \in DOMAIN walk} = DOMAIN rows

\* C19's case: the second page of a two-BSO collection, asked for with the
\* token of the first page, holds the second id, and is the last.
C19_Witness ==
    /\ IsGet(last) /\ last.resp.status = 200 /\ last.op_err = ""
    /\ DOMAIN last.pre.rows = {"b1", "b2"}
    /\ last.limit = 1 /\ last.offset = 1
    /\ Page(last.pre.rows, FALSE, 1, 0).offset = Some(last.offset)
    /\ last.resp.items = <<"b2">>
    /\ last.resp.records = 1
    /\ last.resp.next_offset = None

\* C17: the mock is stateless and never errors: after any sequence of calls
\* every method returned Ok with the default value of its result type,
\* commit, rollback and MockDbPool::get returned Ok, and a get_bso after a
\* put_bso of the same key still returned the default.
C17_MockStateless ==
    \A k \in DOMAIN mock_log :
        LET e == mock_log[k]
        IN /\ e.ok
           /\ e.method \in MockMethods => e.result = ZeroValue(e.method)
           /\ e.method \in {"commit", "rollback"} => e.result = "()"
           /\ e.method = "get" => e.result = "MockDb"
           /\ (e.method = "get_bso"
               /\ \E j \in 1..(k - 1) : /\ mock_log[j].method = "put_bso"
                                        /\ mock_log[j].key = e.key)
                 => e.result = None

\* C17's case: a put_bso, then a get_bso of the same key.
C17_Witness ==
    /\ Len(mock_log) = 2
    /\ mock_log[1].method = "put_bso" /\ mock_log[2].method = "get_bso"
    /\ mock_log[1].key = mock_log[2].key
    /\ mock_log[2].result = None


StagingCalls == {"post_bsos", "append_to_batch"}

\* The staging call was the last call request r made.
EndedInStaging(r) ==
    r.calls # <<>> /\ r.calls[Len(r.calls)] \in StagingCalls

CallsOf(r) == {r.calls[k] : k \in DOMAIN r.calls}

\* C20: a conflict aborts a batched upload: when append_to_batch or post_bsos
\* fails with a conflict, the handler returns that error, calls neither
\* get_batch nor commit_batch and answers neither 200 nor 202; every other
\* error of the staging call puts the ids of the request in failed and the
\* request goes on, so that no request whose staging call met a conflict is
\* ever on its way to an answer.
C20_ConflictAbortsBatch ==
    /\ (IsBatch(last) /\ EndedInStaging(last) /\ last.op_err = "Conflict")
          => /\ last.resp.err = "Conflict"
             /\ last.resp.status \notin {200, 202}
             /\ CallsOf(last) \cap {"get_batch", "commit_batch"} = {}
             /\ last.resp.failed = {}
    /\ (req.pc = "respond" /\ req.op_err # "")
          => /\ req.op_err # "Conflict"
             /\ EndedInStaging(req)
             /\ req.success = {}
             /\ req.failed = req.invalid \cup DOMAIN req.valid
    /\ (IsBatch(last) /\ IsOk(last.resp) /\ last.op_err # "")
          => /\ last.op_err # "Conflict"
             /\ DOMAIN last.valid \subseteq last.resp.failed

\* C20's case: a committing request on a batch with staged BSOs whose
\* append_to_batch or post_bsos met a conflict has finished.
C20_Witness ==
    /\ IsBatch(last) /\ EndedInStaging(last) /\ last.op_err = "Conflict"
    /\ last.batch[1].commit
    /\ Staged(last) # EmptyMap
    /\ last.valid # EmptyMap
    /\ last.resp.status = 503

\* A finished batched POST without commit that got past validate_batch or
\* create_batch: r.id is the validated or newly created batch id.
NoCommit(r) == IsBatch(r) /\ ~r.batch[1].commit /\ r.id # None

\* How many times request r called `name`.
Count(r, name) == Cardinality({k \in DOMAIN r.calls : r.calls[k] = name})

\* Request r made none of the calls that write bso, and no row changed.
OnlyStaged(r) ==
    /\ CallsOf(r) \cap {"post_bsos", "get_batch", "commit_batch"} = {}
    /\ r.post.rows = r.pre.rows

\* Request r appended once to its batch and was answered 202 with the id of
\* that batch; without an id in the request, create_batch came first.
AppendedAndAccepted(r) ==
    /\ Count(r, "append_to_batch") = 1
    /\ r.calls = <<IF r.batch[1].id = None THEN "create_batch"
                                           ELSE "validate_batch",
                   "append_to_batch">>
    /\ r.batch[1].id # None => r.id = r.batch[1].id
    /\ r.resp.status = 202
    /\ r.resp.batch = r.id
    /\ r.op_err = "" => /\ r.id[1] \in DOMAIN r.post.staged
                        /\ r.post.staged[r.id[1]] = StageBsos(Staged(r), r.valid)

\* C21 as claimed: a batched request without commit never calls post_bsos,
\* get_batch or commit_batch and changes no row of bso; it calls
\* append_to_batch exactly once with the validated or newly created batch
\* id and answers 202 Accepted carrying that id.
C21_NoCommitAlwaysAccepted ==
    NoCommit(last) => OnlyStaged(last) /\ AppendedAndAccepted(last)

\* C21 as amended: a batched request without commit never calls post_bsos,
\* get_batch or commit_batch and changes no row of bso; it calls
\* append_to_batch exactly once with the validated or newly created batch
\* id and answers 202 Accepted carrying that id, unless append_to_batch
\* meets a conflict, which is returned as the error and leaves the batches
\* as they were.  Without an id in the request, create_batch has made an
\* empty batch before the append.
C21_NoCommitOnlyStages ==
    /\ NoCommit(last)
          => /\ OnlyStaged(last)
             /\ IF last.op_err = "Conflict"
                  THEN /\ Count(last, "append_to_batch") = 1
                       /\ EndedInStaging(last)
                       /\ last.resp.err = "Conflict"
                       /\ last.post = last.pre
                  ELSE AppendedAndAccepted(last)
    /\ (req.pc = "stage" /\ req.calls = <<"create_batch">>)
          => /\ req.batch[1].id = None
             /\ req.id[1] \in DOMAIN batches[SlotOf(req)]
             /\ batches[SlotOf(req)][req.id[1]] = EmptyMap

\* C21's case: a request without commit and without a batch id, carrying a
\* BSO, was answered 202 with the id of the batch it created and filled.
C21_Witness ==
    /\ NoCommit(last)
    /\ last.batch[1].id = None
    /\ last.valid # EmptyMap
    /\ last.calls = <<"create_batch", "append_to_batch">>
    /\ last.resp.status = 202
    /\ last.resp.batch = last.id
    /\ last.post.staged[last.id[1]] = last.valid
    /\ last.post.rows = last.pre.rows

\* The staging call of the finished request r succeeded: with a 200 or 202
\* answer, op_err can only be an error of that call.
StagingSucceeded(r) == r.op_err = ""

\* C22: in every non-error response of post_collection_batch, each valid
\* BSO id of the request is in exactly one of success and failed, in
\* success iff the append_to_batch/post_bsos step succeeded, and every id
\* the request layer rejected is in failed and not in success.
C22_SuccessFailedPartition ==
    (IsBatch(last) /\ IsOk(last.resp))
        => /\ \A i \in DOMAIN last.valid :
                 /\ (i \in last.resp.success) # (i \in last.resp.failed)
                 /\ (i \in last.resp.success) <=> StagingSucceeded(last)
           /\ last.invalid \subseteq last.resp.failed
           /\ last.invalid \cap last.resp.success = {}
           /\ last.resp.success \cup last.resp.failed
                 = (DOMAIN last.valid) \cup last.invalid

\* C22's case: a request with a valid and a rejected BSO whose staging call
\* failed without a conflict was answered: both ids are in failed.
C22_Witness ==
    /\ IsBatch(last) /\ IsOk(last.resp)
    /\ last.valid # EmptyMap /\ last.invalid # {}
    /\ ~StagingSucceeded(last)
    /\ last.resp.success = {}
    /\ last.resp.failed = (DOMAIN last.valid) \cup last.invalid

\* No thread is inside put: every put that was called has completed.
Quiescent == \A t \in Threads : ~InPut(t)

\* C23: the cache maps are mutual inverses when quiescent: in every state
\* where no put is in progress, get_id(n) = i iff get_name(i) = n, for all
\* names n and ids i.
C23_MutualInversesWhenQuiescent ==
    Quiescent
        => \A n \in (DOMAIN by_name) \cup PutNames,
              i \in (DOMAIN by_id) \cup PutIds :
              (Lookup(by_name, n) = Some(i)) <=> (Lookup(by_id, i) = Some(n))

\* The locks thread t holds, as a writer or as a reader.
LocksHeld(t) ==
    {l \in {"by_name", "by_id"} :
        LET lock == IF l = "by_name" THEN name_lock ELSE id_lock
        IN lock.w = Some(t) \/ t \in lock.r}

\* Thread t waits for a lock.
Waiting(t) ==
    th[t].pc \in {"put_lock_name", "put_lock_id", "get_id_lock", "get_name_lock"}

\* C24: the cache is deadlock-free: a thread waiting for a lock holds none
\* (put has released by_name before it takes by_id) and no thread ever holds
\* two, so under fair lock scheduling every call of put, get_id and get_name,
\* in every concurrent combination, eventually completes.
C24_CacheDeadlockFree ==
    /\ [](\A t \in Threads :
            /\ Waiting(t) => LocksHeld(t) = {}
            /\ Cardinality(LocksHeld(t)) <= 1)
    /\ \A t \in Threads : (th[t].pc # "idle") ~> (th[t].pc = "idle")

\* C24's case: a put waits for by_id, holding nothing, while the other
\* thread reads by_id.
C24_Witness ==
    \E t, u \in Threads :
        /\ th[t].pc = "put_lock_id" /\ LocksHeld(t) = {}
        /\ th[u].pc = "get_name_read" /\ LocksHeld(u) = {"by_id"}
        /\ ~CanWrite(id_lock)

=============================================================================
